---- MODULE Spec2Model ----
(***************************************************************************)
(* Bank statement reconciliation (src/main.py).                            *)
(*                                                                         *)
(* Text is a sequence of one-character strings, so that str.replace,       *)
(* str.lower, float() and re.search are computed character by character.   *)
(* Money is an exact decimal: the integer number of 10^-MaxLen units.      *)
(* Python's binary floating point is not modelled; every value the model   *)
(* handles has at most MaxLen fractional digits and is exact.              *)
(***************************************************************************)
EXTENDS Integers, Sequences, FiniteSets, Bags, TLC

VARIABLES
    folder,              \* os.listdir(input_folder): the entries, in listing order
    idx,                 \* position of the for loop of process_folder
    pc,                  \* where the run is
    starting_balance,    \* local of analyze_bank_statement: None or Some(v)
    ending_balance,      \* local of analyze_bank_statement: None or Some(v)
    transactions,        \* local of analyze_bank_statement
    warnings,            \* the "Warning: Could not find ..." lines printed
    errors,              \* the "Error processing ..." lines printed
    data,                \* the dict analyze_bank_statement returned last
    total_transactions,  \* locals of process_folder
    expected_ending,
    variance,
    all_data,            \* rows of extracted_transactions.csv
    output_json_data,    \* output.json, keyed by file name
    discrepancies,       \* entries of discrepancy_report.txt
    variances,           \* bars of variance_graph.png
    written,             \* TRUE once the four outputs are saved
    inp,                 \* argument of a direct safe_float call
    out                  \* its outcome

vars == <<folder, idx, pc, starting_balance, ending_balance, transactions,
          warnings, errors, data, total_transactions, expected_ending, variance,
          all_data, output_json_data, discrepancies, variances, written, inp, out>>

---------------------------------------------------------------------------
(* Bounds *)

\* longest text handed to a direct safe_float call; also the number of
\* fractional decimal digits a money value keeps
MaxLen == 3
\* most key-value pairs and tables, taken together, of one analysed document
MaxParts == 3
\* most directory entries of a batch
MaxFiles == 3

---------------------------------------------------------------------------
(* Python values *)

\* Python's None where a text is expected (a text never holds this token)
PyNone == <<"None">>

\* Optional number: None / a float
None == <<>>
Some(v) == <<v>>
IsNone(x) == x = None
Val(x) == x[1]

RECURSIVE Pow10(_)
Pow10(n) == IF n = 0 THEN 1 ELSE 10 * Pow10(n - 1)

\* one currency unit
Scale == Pow10(MaxLen)

\* the literal 0.01 of the discrepancy test
Tolerance == Scale \div 100

Abs(x) == IF x < 0 THEN -x ELSE x

---------------------------------------------------------------------------
(* str and float *)

DigitChars == <<"0", "1", "2", "3", "4", "5", "6", "7", "8", "9">>
UpperChars == <<"A", "B", "C", "D", "E", "F", "G", "H", "I", "J", "K", "L", "M",
                "N", "O", "P", "Q", "R", "S", "T", "U", "V", "W", "X", "Y", "Z">>
LowerChars == <<"a", "b", "c", "d", "e", "f", "g", "h", "i", "j", "k", "l", "m",
                "n", "o", "p", "q", "r", "s", "t", "u", "v", "w", "x", "y", "z">>
Range(s) == {s[i] : i \in DOMAIN s}
DigitSet == Range(DigitChars)
UpperSet == Range(UpperChars)
WordCharSet == Range(LowerChars) \cup Range(UpperChars) \cup Range(DigitChars) \cup {"_"}
DigitOf == [c \in DigitSet |-> (CHOOSE i \in DOMAIN DigitChars : DigitChars[i] = c) - 1]
LowerOf == [c \in UpperSet |-> LowerChars[CHOOSE i \in DOMAIN UpperChars : UpperChars[i] = c]]
IsDigit(c) == c \in DigitSet
DigitVal(c) == DigitOf[c]
IsSpace(c) == c \in {" ", "\t", "\n"}

\* str.replace(ch, "")
RECURSIVE Remove(_, _)
Remove(s, ch) ==
    IF s = <<>> THEN <<>>
    ELSE IF Head(s) = ch THEN Remove(Tail(s), ch)
    ELSE <<Head(s)>> \o Remove(Tail(s), ch)

\* str.lower()
LowerChar(c) == IF c \in UpperSet THEN LowerOf[c] ELSE c
Lower(s) == [i \in DOMAIN s |-> LowerChar(s[i])]

\* str.endswith
EndsWith(s, suffix) ==
    /\ Len(s) >= Len(suffix)
    /\ SubSeq(s, Len(s) - Len(suffix) + 1, Len(s)) = suffix

\* float() ignores leading and trailing whitespace
RECURSIVE LStrip(_)
LStrip(s) == IF s # <<>> /\ IsSpace(Head(s)) THEN LStrip(Tail(s)) ELSE s
RECURSIVE RStrip(_)
RStrip(s) ==
    IF s # <<>> /\ IsSpace(s[Len(s)]) THEN RStrip(SubSeq(s, 1, Len(s) - 1)) ELSE s

\* value of a run of digits
RECURSIVE IntVal(_)
IntVal(ds) ==
    IF ds = <<>> THEN 0
    ELSE 10 * IntVal(SubSeq(ds, 1, Len(ds) - 1)) + DigitVal(ds[Len(ds)])

\* value of the digits after the point, in units of 10^-MaxLen
RECURSIVE FracVal(_, _)
FracVal(ds, unit) ==
    IF ds = <<>> THEN 0
    ELSE DigitVal(Head(ds)) * (unit \div 10) + FracVal(Tail(ds), unit \div 10)

\* float(str) for decimal literals: [sign] digits [. digits] or [sign] . digits,
\* with surrounding whitespace.  ok = FALSE is ValueError.  (Exponents,
\* underscores, inf and nan are the literals left out; none of the texts of
\* this model spells one.)
ParseDigits(ip, fp, dots) ==
    IF /\ dots <= 1
       /\ \A i \in DOMAIN ip : IsDigit(ip[i])
       /\ \A i \in DOMAIN fp : IsDigit(fp[i])
       /\ Len(ip) + Len(fp) >= 1
    THEN [ok |-> TRUE, val |-> IntVal(ip) * Scale + FracVal(fp, Scale)]
    ELSE [ok |-> FALSE, val |-> 0]
DotsOf(body) == {i \in DOMAIN body : body[i] = "."}
FirstDot(dots, none) == IF dots = {} THEN none ELSE CHOOSE i \in dots : \A j \in dots : i <= j
ParseParts(body, dot, dots) ==
    ParseDigits(SubSeq(body, 1, dot - 1), SubSeq(body, dot + 1, Len(body)), dots)
ParseUnsigned(body) ==
    ParseParts(body, FirstDot(DotsOf(body), Len(body) + 1), Cardinality(DotsOf(body)))
HasSign(s) == s # <<>> /\ Head(s) \in {"-", "+"}
Signed(s, p) == IF s # <<>> /\ Head(s) = "-" THEN [ok |-> p.ok, val |-> -p.val] ELSE p
ParseStripped(s) == Signed(s, ParseUnsigned(IF HasSign(s) THEN Tail(s) ELSE s))
ParseFloat(str) == ParseStripped(RStrip(LStrip(str)))

\* safe_float: exc is the exception that leaves the function ("" for none)
\* the try statement of safe_float around float(text)
FloatOrZero(p) == IF p.ok THEN [exc |-> "", val |-> p.val] ELSE [exc |-> "", val |-> 0]
safe_float(value) ==
    IF value = PyNone
    THEN [exc |-> "AttributeError", val |-> 0]
    ELSE FloatOrZero(ParseFloat(Remove(Remove(value, ","), "$")))

\* safe_float of a text (content of a cell or of a key-value element)
Money(text) == safe_float(text).val

---------------------------------------------------------------------------
(* The two label patterns *)

StartWords == { <<"s", "t", "a", "r", "t", "i", "n", "g">>,
                <<"b", "e", "g", "i", "n", "n", "i", "n", "g">>,
                <<"p", "r", "e", "v", "i", "o", "u", "s">>,
                <<"o", "p", "e", "n", "i", "n", "g">>,
                <<"p", "r", "i", "o", "r">>,
                <<"i", "n", "i", "t", "i", "a", "l">> }
EndWords == { <<"e", "n", "d", "i", "n", "g">>,
              <<"c", "u", "r", "r", "e", "n", "t">>,
              <<"c", "l", "o", "s", "i", "n", "g">>,
              <<"n", "e", "w">>,
              <<"f", "i", "n", "a", "l">> }
BalWords == { <<"b", "a", "l", "a", "n", "c", "e">>, <<"b", "a", "l">> }

\* \w
IsWordChar(c) == c \in WordCharSet
IsWordAt(s, p) == p >= 1 /\ p <= Len(s) /\ IsWordChar(s[p])
\* \b between s[p-1] and s[p]
Boundary(s, p) == IsWordAt(s, p - 1) # IsWordAt(s, p)
\* \b w \b matched at position p
WordAt(s, p, w) ==
    /\ Boundary(s, p)
    /\ p + Len(w) - 1 <= Len(s)
    /\ Boundary(s, p + Len(w))
    /\ \A i \in 1..Len(w) : s[p + i - 1] = w[i]
\* re.search(r'\b(first)\b.*\b(balance|bal)\b', s)
Search(firsts, s) ==
    \E p \in 1..Len(s), w \in firsts :
        /\ WordAt(s, p, w)
        /\ \E q \in (p + Len(w))..Len(s), b \in BalWords :
              /\ WordAt(s, q, b)
              /\ \A k \in (p + Len(w))..(q - 1) : s[k] # "\n"
MatchesStart(s) == Search(StartWords, s)
MatchesEnd(s) == Search(EndWords, s)

---------------------------------------------------------------------------
(* Balance search of analyze_bank_statement.  A table is the sequence         *)
(* table.cells; a cell is [row_index, column_index, content]; a key-value     *)
(* pair is [key, value], each the element's content or PyNone when the        *)
(* element is missing.                                                        *)

KeyText(kv) == IF kv.key = PyNone THEN <<>> ELSE Lower(kv.key)
ValueText(kv) == IF kv.value = PyNone THEN <<>> ELSE kv.value

\* first pass, the loop over result.key_value_pairs
RECURSIVE KeyValueScan(_, _, _)
KeyValueScan(kvs, sb, eb) ==
    IF kvs = <<>> THEN <<sb, eb>>
    ELSE LET kv  == Head(kvs)
             sb2 == IF MatchesStart(KeyText(kv)) THEN Some(Money(ValueText(kv))) ELSE sb
             eb2 == IF MatchesEnd(KeyText(kv)) THEN Some(Money(ValueText(kv))) ELSE eb
         IN  KeyValueScan(Tail(kvs), sb2, eb2)

\* the test on adjacent_cell with the column to the left forgotten
IsAdjacent_Mut(cell, adjacent_cell) ==
    /\ adjacent_cell.row_index = cell.row_index
    /\ adjacent_cell.column_index = cell.column_index + 1

\* the test on adjacent_cell
IsAdjacent(cell, adjacent_cell) ==
    /\ adjacent_cell.row_index = cell.row_index
    /\ adjacent_cell.column_index \in {cell.column_index + 1, cell.column_index - 1}

\* a loop "for cell in cells: v = safe_float(cell.content); if v != 0.0: x = v; break":
\* what it assigns, None when it assigns nothing
FirstNonZero(cells) ==
    LET hits == SelectSeq(cells, LAMBDA c : Money(c.content) # 0)
    IN  IF hits = <<>> THEN None ELSE Some(Money(Head(hits).content))

\* the inner loop over adjacent cells of the second pass
AdjacentValue(table, cell) ==
    FirstNonZero(SelectSeq(table, LAMBDA a : IsAdjacent(cell, a)))

\* second pass, the loop over the cells of one table
RECURSIVE AdjacencyCells(_, _, _, _)
AdjacencyCells(table, cells, sb, eb) ==
    IF cells = <<>> THEN <<sb, eb>>
    ELSE LET cell == Head(cells)
             cell_text == Lower(cell.content)
             found == AdjacentValue(table, cell)
             sb2 == IF IsNone(sb) /\ MatchesStart(cell_text) /\ ~IsNone(found)
                    THEN found ELSE sb
             eb2 == IF IsNone(eb) /\ MatchesEnd(cell_text) /\ ~IsNone(found)
                    THEN found ELSE eb
         IN  AdjacencyCells(table, Tail(cells), sb2, eb2)

\* second pass, the loop over result.tables
RECURSIVE AdjacencyTables(_, _, _)
AdjacencyTables(tables, sb, eb) ==
    IF tables = <<>> THEN <<sb, eb>>
    ELSE LET r == AdjacencyCells(Head(tables), Head(tables), sb, eb)
         IN  AdjacencyTables(Tail(tables), r[1], r[2])

\* second pass
TableAdjacency(tables, sb, eb) ==
    IF IsNone(sb) \/ IsNone(eb) THEN AdjacencyTables(tables, sb, eb) ELSE <<sb, eb>>

RowCells(table, r) == SelectSeq(table, LAMBDA c : c.row_index = r)
MaxRow(table) ==
    CHOOSE r \in {table[i].row_index : i \in DOMAIN table} :
        \A i \in DOMAIN table : table[i].row_index <= r

\* third pass, the loop over result.tables; the break leaves the loop over
\* the cells only, so every table with a non-zero cell in row 0 assigns
RECURSIVE StartRowScan(_, _)
StartRowScan(tables, sb) ==
    IF tables = <<>> THEN sb
    ELSE LET table == Head(tables)
             found == IF Len(table) > 0 THEN FirstNonZero(RowCells(table, 0)) ELSE None
         IN  StartRowScan(Tail(tables), IF IsNone(found) THEN sb ELSE found)

\* third pass entered on "not starting_balance": 0.0 counts as unresolved
StartingFallback_Mut(tables, sb) ==
    IF IsNone(sb) \/ sb = Some(0) THEN StartRowScan(tables, sb) ELSE sb

\* third pass
StartingFallback(tables, sb) == IF IsNone(sb) THEN StartRowScan(tables, sb) ELSE sb

\* the last-row loop over result.tables
RECURSIVE EndRowScan(_, _)
EndRowScan(tables, eb) ==
    IF tables = <<>> THEN eb
    ELSE LET table == Head(tables)
             found == IF Len(table) > 0
                      THEN FirstNonZero(RowCells(table, MaxRow(table))) ELSE None
         IN  EndRowScan(Tail(tables), IF IsNone(found) THEN eb ELSE found)

\* the last-row fallback
EndingFallback(tables, eb) == IF IsNone(eb) THEN EndRowScan(tables, eb) ELSE eb

---------------------------------------------------------------------------
(* Transaction extraction *)

Direction(amount) == IF amount > 0 THEN "Credit" ELSE "Debit"

\* the dict appended for a row (the list of the contents of its cells)
Transaction(row) ==
    [Date |-> row[1], Description |-> row[2], Amount |-> Money(row[3]),
     Direction |-> Direction(Money(row[3]))]

\* what one cell appends when row 0 is not passed over
CellTransactions_Mut(table, cell) ==
    IF cell.row_index >= 0
    THEN LET cells == RowCells(table, cell.row_index)
             row == [i \in DOMAIN cells |-> cells[i].content]
         IN  IF Len(row) >= 3 THEN <<Transaction(row)>> ELSE <<>>
    ELSE <<>>

\* what one cell of a table appends
CellTransactions(table, cell) ==
    IF cell.row_index > 0
    THEN LET cells == RowCells(table, cell.row_index)
             row == [i \in DOMAIN cells |-> cells[i].content]
         IN  IF Len(row) >= 3 THEN <<Transaction(row)>> ELSE <<>>
    ELSE <<>>

RECURSIVE TableTransactions(_, _)
TableTransactions(table, cells) ==
    IF cells = <<>> THEN <<>>
    ELSE CellTransactions(table, Head(cells)) \o TableTransactions(table, Tail(cells))

RECURSIVE ExtractTransactions(_)
ExtractTransactions(tables) ==
    IF tables = <<>> THEN <<>>
    ELSE TableTransactions(Head(tables), Head(tables)) \o ExtractTransactions(Tail(tables))

---------------------------------------------------------------------------
(* Reconciliation of process_folder *)

\* the amount summed whatever the direction
SignedAmount_Mut(t) == t.Amount

SignedAmount(t) == IF t.Direction = "Credit" THEN t.Amount ELSE -t.Amount

RECURSIVE TotalTransactions(_)
TotalTransactions(ts) ==
    IF ts = <<>> THEN 0 ELSE SignedAmount(Head(ts)) + TotalTransactions(Tail(ts))

\* the test with >= for >
IsDiscrepancy_Mut(v) == Abs(v) >= Tolerance

IsDiscrepancy(v) == Abs(v) > Tolerance

---------------------------------------------------------------------------
(* Analysis results the document service may deliver *)

\* ("Previous Balance", "$1,000.00")
KVPrevious == [key |-> <<"P", "r", "e", "v", "i", "o", "u", "s", " ", "B", "a", "l", "a", "n", "c", "e">>,
    value |-> <<"$", "1", ",", "0", "0", "0", ".", "0", "0">>]
\* ("New Balance", "1,200.00")
KVNew == [key |-> <<"N", "e", "w", " ", "B", "a", "l", "a", "n", "c", "e">>,
    value |-> <<"1", ",", "2", "0", "0", ".", "0", "0">>]
\* ("Opening Balance", no value element)
KVOpeningNoValue == [key |-> <<"O", "p", "e", "n", "i", "n", "g", " ", "B", "a", "l", "a", "n", "c", "e">>,
    value |-> PyNone]
\* ("Closing Bal", "1,000.01")
KVClosing == [key |-> <<"C", "l", "o", "s", "i", "n", "g", " ", "B", "a", "l">>,
    value |-> <<"1", ",", "0", "0", "0", ".", "0", "1">>]
\* (no key element, "1,200.00")
KVNoKey == [key |-> PyNone,
    value |-> <<"1", ",", "2", "0", "0", ".", "0", "0">>]
KVPool == {KVPrevious, KVNew, KVOpeningNoValue, KVClosing, KVNoKey}

\* one data row, no header row
TableDeposit ==
    << [row_index |-> 1, column_index |-> 0, content |-> <<"0", "1", "/", "0", "2">>],
       [row_index |-> 1, column_index |-> 1, content |-> <<"D", "e", "p", "o", "s", "i", "t">>],
       [row_index |-> 1, column_index |-> 2, content |-> <<"2", "0", "0", ".", "0", "0">>] >>
\* a starting label between two different amounts
TableOpening ==
    << [row_index |-> 0, column_index |-> 0, content |-> <<"5", ".", "0", "0">>],
       [row_index |-> 0, column_index |-> 1, content |-> <<"O", "p", "e", "n", "i", "n", "g", " ", "B", "a", "l", "a", "n", "c", "e">>],
       [row_index |-> 0, column_index |-> 2, content |-> <<"7", ".", "0", "0">>] >>
\* a header row and a row with a negative amount
TableFee ==
    << [row_index |-> 0, column_index |-> 0, content |-> <<"D", "a", "t", "e">>],
       [row_index |-> 0, column_index |-> 1, content |-> <<"D", "e", "s", "c">>],
       [row_index |-> 0, column_index |-> 2, content |-> <<"A", "m", "o", "u", "n", "t">>],
       [row_index |-> 1, column_index |-> 0, content |-> <<"0", "1", "/", "0", "3">>],
       [row_index |-> 1, column_index |-> 1, content |-> <<"F", "e", "e">>],
       [row_index |-> 1, column_index |-> 2, content |-> <<"-", "5", "0", ".", "0", "0">>] >>
\* an amount alone in row 0
TableFirstRow ==
    << [row_index |-> 0, column_index |-> 0, content |-> <<"5", "0", "0", ".", "0", "0">>] >>
\* an ending label beside an amount
TableClosing ==
    << [row_index |-> 0, column_index |-> 0, content |-> <<"C", "l", "o", "s", "i", "n", "g", " ", "B", "a", "l", "a", "n", "c", "e">>],
       [row_index |-> 0, column_index |-> 1, content |-> <<"1", ",", "2", "0", "0", ".", "0", "0">>] >>
\* a starting label beside no amount, an amount two columns away, and a last
\* row of two cells without an amount
TablePrior ==
    << [row_index |-> 0, column_index |-> 0, content |-> <<"P", "r", "i", "o", "r", " ", "B", "a", "l">>],
       [row_index |-> 0, column_index |-> 1, content |-> <<"n", "/", "a">>],
       [row_index |-> 0, column_index |-> 3, content |-> <<"9", ".", "0", "0">>],
       [row_index |-> 1, column_index |-> 0, content |-> <<"x">>],
       [row_index |-> 1, column_index |-> 1, content |-> <<"n", "/", "a">>] >>
\* a table without cells
TableEmpty == <<>>
TablePool == {TableDeposit, TableOpening, TableFee, TableFirstRow, TableClosing,
              TablePrior, TableEmpty}

SeqsUpTo(S, n) == UNION {[1..k -> S] : k \in 0..n}

\* poller.result(): key_value_pairs and tables
Docs ==
    UNION {[key_value_pairs : [1..k -> KVPool], tables : SeqsUpTo(TablePool, MaxParts - k)] :
           k \in 0..MaxParts}

EmptyDoc == [key_value_pairs |-> <<>>, tables |-> <<>>]
ScenarioDoc == [key_value_pairs |-> <<KVPrevious, KVNew>>, tables |-> <<TableDeposit>>]

---------------------------------------------------------------------------
(* The input folder.  An entry of the listing has a name; opens says whether *)
(* open(file_path, "rb") succeeds (a directory or an unreadable file does    *)
(* not open), analyses whether the service call and poller.result() return,  *)
(* result what they return.                                                  *)

ExtPdf == <<".", "p", "d", "f">>
ExtTxt == <<".", "t", "x", "t">>
FileName(i, ext) == <<LowerChars[i]>> \o ext

Entries(i, docs) ==
    {[name |-> FileName(i, ExtPdf), opens |-> TRUE, analyses |-> TRUE, result |-> d] :
        d \in docs}
    \cup {[name |-> FileName(i, ExtPdf), opens |-> TRUE, analyses |-> FALSE,
           result |-> EmptyDoc],
          [name |-> FileName(i, ExtPdf), opens |-> FALSE, analyses |-> FALSE,
           result |-> EmptyDoc],
          [name |-> FileName(i, ExtTxt), opens |-> TRUE, analyses |-> FALSE,
           result |-> EmptyDoc]}

\* a folder of one entry, any analysis result
Folders1 == {<<e>> : e \in Entries(1, Docs)}

\* folders of up to MaxFiles entries, two analysis results
FoldersN ==
    UNION {{f \in [1..n -> UNION {Entries(i, {EmptyDoc, ScenarioDoc}) : i \in 1..n}] :
               \A i \in 1..n : f[i] \in Entries(i, {EmptyDoc, ScenarioDoc})} :
           n \in 1..MaxFiles}

\* texts of up to MaxLen characters, and None
ParseChars == {"$", ",", "-", ".", "0", "1", "a"}
ParseInputs == SeqsUpTo(ParseChars, MaxLen) \cup {PyNone}

---------------------------------------------------------------------------
(* State *)

NoData == [starting_balance |-> 0, ending_balance |-> 0, transactions |-> <<>>]
NoOutcome == [exc |-> "not called", val |-> 0]

InitRun ==
    /\ idx = 1
    /\ pc = "list"
    /\ starting_balance = None
    /\ ending_balance = None
    /\ transactions = <<>>
    /\ warnings = <<>>
    /\ errors = <<>>
    /\ data = NoData
    /\ total_transactions = 0
    /\ expected_ending = 0
    /\ variance = 0
    /\ all_data = <<>>
    /\ output_json_data = <<>>
    /\ discrepancies = <<>>
    /\ variances = <<>>
    /\ written = FALSE

Init ==
    /\ folder \in Folders1
    /\ InitRun
    /\ inp = PyNone
    /\ out = NoOutcome

InitBatch ==
    /\ folder \in FoldersN
    /\ InitRun
    /\ inp = PyNone
    /\ out = NoOutcome

InitParse ==
    /\ folder = <<>>
    /\ InitRun
    /\ inp \in ParseInputs
    /\ out = NoOutcome

file == folder[idx]
file_name == file.name
result == file.result

runVars == <<starting_balance, ending_balance, transactions, warnings, errors, data>>
foldVars == <<total_transactions, expected_ending, variance, all_data,
              output_json_data, discrepancies, variances, written>>
parseVars == <<inp, out>>

---------------------------------------------------------------------------
(* process_folder: the loop over the listing *)

\* an entry that does not end in .pdf is passed over
SkipEntry ==
    /\ pc = "list" /\ idx <= Len(folder)
    /\ ~EndsWith(file_name, ExtPdf)
    /\ idx' = idx + 1
    /\ UNCHANGED <<folder, pc, runVars, foldVars, parseVars>>

\* analyze_bank_statement is called and open() succeeds
OpenFile ==
    /\ pc = "list" /\ idx <= Len(folder)
    /\ EndsWith(file_name, ExtPdf)
    /\ file.opens
    /\ pc' = "analyze"
    /\ UNCHANGED <<folder, idx, runVars, foldVars, parseVars>>

\* open() raises OSError: the with statement is outside the try, nothing in
\* process_folder catches it, and the run ends before anything is saved
OpenFails ==
    /\ pc = "list" /\ idx <= Len(folder)
    /\ EndsWith(file_name, ExtPdf)
    /\ ~file.opens
    /\ pc' = "aborted"
    /\ UNCHANGED <<folder, idx, runVars, foldVars, parseVars>>

\* begin_analyze_document and poller.result() return; the locals are set
AnalyzeDocument ==
    /\ pc = "analyze"
    /\ file.analyses
    /\ transactions' = <<>>
    /\ starting_balance' = None
    /\ ending_balance' = None
    /\ pc' = "key_value"
    /\ UNCHANGED <<folder, idx, warnings, errors, data, foldVars, parseVars>>

\* the service call raises: the except branch returns the zero result
AnalyzeFails ==
    /\ pc = "analyze"
    /\ ~file.analyses
    /\ errors' = Append(errors, file_name)
    /\ data' = [starting_balance |-> 0, ending_balance |-> 0, transactions |-> <<>>]
    /\ pc' = "reconcile"
    /\ UNCHANGED <<folder, idx, starting_balance, ending_balance, transactions,
                   warnings, foldVars, parseVars>>

KeyValuePass ==
    /\ pc = "key_value"
    /\ LET r == KeyValueScan(result.key_value_pairs, starting_balance, ending_balance)
       IN  starting_balance' = r[1] /\ ending_balance' = r[2]
    /\ pc' = "adjacency"
    /\ UNCHANGED <<folder, idx, transactions, warnings, errors, data, foldVars, parseVars>>

TableAdjacencyPass ==
    /\ pc = "adjacency"
    /\ LET r == TableAdjacency(result.tables, starting_balance, ending_balance)
       IN  starting_balance' = r[1] /\ ending_balance' = r[2]
    /\ pc' = "first_row"
    /\ UNCHANGED <<folder, idx, transactions, warnings, errors, data, foldVars, parseVars>>

StartingFallbackPass ==
    /\ pc = "first_row"
    /\ starting_balance' = StartingFallback(result.tables, starting_balance)
    /\ pc' = "last_row"
    /\ UNCHANGED <<folder, idx, ending_balance, transactions, warnings, errors, data,
                   foldVars, parseVars>>

EndingFallbackPass ==
    /\ pc = "last_row"
    /\ ending_balance' = EndingFallback(result.tables, ending_balance)
    /\ pc' = "defaults"
    /\ UNCHANGED <<folder, idx, starting_balance, transactions, warnings, errors, data,
                   foldVars, parseVars>>

\* the warnings with the second test made on the starting balance
DefaultWarnings_Mut(name, sb, eb) ==
    (IF IsNone(sb) THEN <<[file |-> name, field |-> "starting"]>> ELSE <<>>)
    \o (IF IsNone(sb) THEN <<[file |-> name, field |-> "ending"]>> ELSE <<>>)

\* the warnings printed by the defaults, in order
DefaultWarnings(name, sb, eb) ==
    (IF IsNone(sb) THEN <<[file |-> name, field |-> "starting"]>> ELSE <<>>)
    \o (IF IsNone(eb) THEN <<[file |-> name, field |-> "ending"]>> ELSE <<>>)

Defaults ==
    /\ pc = "defaults"
    /\ starting_balance' = IF IsNone(starting_balance) THEN Some(0) ELSE starting_balance
    /\ ending_balance' = IF IsNone(ending_balance) THEN Some(0) ELSE ending_balance
    /\ warnings' = warnings \o DefaultWarnings(file_name, starting_balance, ending_balance)
    /\ pc' = "extract"
    /\ UNCHANGED <<folder, idx, transactions, errors, data, foldVars, parseVars>>

\* the extraction loop and the return
ExtractPass ==
    /\ pc = "extract"
    /\ transactions' = ExtractTransactions(result.tables)
    /\ data' = [starting_balance |-> Val(starting_balance),
                ending_balance |-> Val(ending_balance),
                transactions |-> transactions']
    /\ pc' = "reconcile"
    /\ UNCHANGED <<folder, idx, starting_balance, ending_balance, warnings, errors,
                   foldVars, parseVars>>

\* the body of "if data:" (a dict of three keys is always true)
Reconcile ==
    /\ pc = "reconcile"
    /\ total_transactions' = TotalTransactions(data.transactions)
    /\ expected_ending' = data.starting_balance + total_transactions'
    /\ variance' = data.ending_balance - expected_ending'
    /\ variances' = Append(variances, [file |-> file_name, variance |-> variance'])
    /\ discrepancies' =
          IF IsDiscrepancy(variance')
          THEN Append(discrepancies,
                      [file |-> file_name,
                       starting_balance |-> data.starting_balance,
                       total_transactions |-> total_transactions',
                       expected_ending |-> expected_ending',
                       actual_ending |-> data.ending_balance,
                       variance |-> variance'])
          ELSE discrepancies
    /\ all_data' = Append(all_data,
                          [File |-> file_name,
                           StartingBalance |-> data.starting_balance,
                           EndingBalance |-> data.ending_balance,
                           Transactions |-> Len(data.transactions)])
    /\ output_json_data' =
          [n \in DOMAIN output_json_data \cup {file_name} |->
              IF n = file_name
              THEN [StartingBalance |-> data.starting_balance,
                    EndingBalance |-> data.ending_balance,
                    Transactions |-> data.transactions]
              ELSE output_json_data[n]]
    /\ idx' = idx + 1
    /\ pc' = "list"
    /\ written' = written
    /\ UNCHANGED <<folder, runVars, parseVars>>

\* after the loop: the CSV, output.json, the report and the graph are saved
SaveOutputs ==
    /\ pc = "list" /\ idx > Len(folder)
    /\ written' = TRUE
    /\ pc' = "done"
    /\ UNCHANGED <<folder, idx, runVars, total_transactions, expected_ending, variance,
                   all_data, output_json_data, discrepancies, variances, parseVars>>

Next ==
    \/ SkipEntry
    \/ OpenFile
    \/ OpenFails
    \/ AnalyzeDocument
    \/ AnalyzeFails
    \/ KeyValuePass
    \/ TableAdjacencyPass
    \/ StartingFallbackPass
    \/ EndingFallbackPass
    \/ Defaults
    \/ ExtractPass
    \/ Reconcile
    \/ SaveOutputs

Spec == Init /\ [][Next]_vars

SpecBatch == InitBatch /\ [][Next]_vars

\* a direct call safe_float(inp)
CallSafeFloat ==
    /\ out = NoOutcome
    /\ out' = safe_float(inp)
    /\ UNCHANGED <<folder, idx, pc, runVars, foldVars, inp>>

NextParse == CallSafeFloat

SpecParse == InitParse /\ [][NextParse]_vars

---------------------------------------------------------------------------
(* Vocabulary of the properties *)

\* analyze_bank_statement has just returned normally for the current entry
Returned == pc = "reconcile" /\ file.analyses

\* process_folder has just recorded the entry before idx
Recorded == pc = "list" /\ idx > 1 /\ EndsWith(folder[idx - 1].name, ExtPdf)
recorded_name == folder[idx - 1].name

OpeningBalanceLabel ==
    <<"O", "p", "e", "n", "i", "n", "g", " ", "B", "a", "l", "a", "n", "c", "e">>

\* indices of the key-value pairs whose key matches the starting / ending pattern
StartKeys(kvs) == {i \in DOMAIN kvs : MatchesStart(KeyText(kvs[i]))}
EndKeys(kvs) == {i \in DOMAIN kvs : MatchesEnd(KeyText(kvs[i]))}
Last(S) == CHOOSE i \in S : \A j \in S : j <= i
First(S) == CHOOSE i \in S : \A j \in S : i <= j

\* cell a is beside cell c: same row, column one less or one greater
Beside(c, a) ==
    /\ a.row_index = c.row_index
    /\ (a.column_index = c.column_index + 1 \/ a.column_index + 1 = c.column_index)

\* positions <<table, cell>> of the label cells of a pattern that have a
\* neighbour parsing to a non-zero number, and the positions of such neighbours
NonZeroBeside(table, ci) ==
    {ai \in DOMAIN table : Beside(table[ci], table[ai]) /\ Money(table[ai].content) # 0}
StartLabels(tables) ==
    {p \in UNION {{<<ti, ci>> : ci \in DOMAIN tables[ti]} : ti \in DOMAIN tables} :
        /\ MatchesStart(Lower(tables[p[1]][p[2]].content))
        /\ NonZeroBeside(tables[p[1]], p[2]) # {}}
EndLabels(tables) ==
    {p \in UNION {{<<ti, ci>> : ci \in DOMAIN tables[ti]} : ti \in DOMAIN tables} :
        /\ MatchesEnd(Lower(tables[p[1]][p[2]].content))
        /\ NonZeroBeside(tables[p[1]], p[2]) # {}}
Before(p, q) == p[1] < q[1] \/ (p[1] = q[1] /\ p[2] <= q[2])
FirstPos(S) == CHOOSE p \in S : \A q \in S : Before(p, q)

\* positions of the cells of row 0 / of the last row that parse to non-zero
FirstRowAmounts(tables) ==
    {p \in UNION {{<<ti, ci>> : ci \in DOMAIN tables[ti]} : ti \in DOMAIN tables} :
        /\ tables[p[1]][p[2]].row_index = 0
        /\ Money(tables[p[1]][p[2]].content) # 0}
LastRowAmounts(tables) ==
    {p \in UNION {{<<ti, ci>> : ci \in DOMAIN tables[ti]} : ti \in DOMAIN tables} :
        /\ \A cj \in DOMAIN tables[p[1]] :
              tables[p[1]][cj].row_index <= tables[p[1]][p[2]].row_index
        /\ Money(tables[p[1]][p[2]].content) # 0}

StartUnfound(doc) ==
    /\ StartKeys(doc.key_value_pairs) = {}
    /\ StartLabels(doc.tables) = {}
    /\ FirstRowAmounts(doc.tables) = {}
EndUnfound(doc) ==
    /\ EndKeys(doc.key_value_pairs) = {}
    /\ EndLabels(doc.tables) = {}
    /\ LastRowAmounts(doc.tables) = {}

Warned(name, field) == \E i \in DOMAIN warnings : warnings[i] = [file |-> name, field |-> field]

\* rows <<table, row index>> that yield records: row index > 0 and 3 cells or more
CellsOfRow(table, r) == {ci \in DOMAIN table : table[ci].row_index = r}
DataRows(tables) ==
    {p \in UNION {{<<ti, tables[ti][ci].row_index>> : ci \in DOMAIN tables[ti]} :
                  ti \in DOMAIN tables} :
        p[2] > 0 /\ Cardinality(CellsOfRow(tables[p[1]], p[2])) >= 3}
RECURSIVE CellCount(_, _)
CellCount(rows, tables) ==
    IF rows = {} THEN 0
    ELSE LET p == CHOOSE q \in rows : TRUE
         IN  Cardinality(CellsOfRow(tables[p[1]], p[2])) + CellCount(rows \ {p}, tables)
\* the k-th cell of a row in cell order
RECURSIVE NthOfRow(_, _, _, _)
NthOfRow(table, r, k, from) ==
    IF table[from].row_index = r
    THEN (IF k = 1 THEN table[from] ELSE NthOfRow(table, r, k - 1, from + 1))
    ELSE NthOfRow(table, r, k, from + 1)
FromRow(t, tables, p) ==
    /\ t.Date = NthOfRow(tables[p[1]], p[2], 1, 1).content
    /\ t.Description = NthOfRow(tables[p[1]], p[2], 2, 1).content
    /\ t.Amount = Money(NthOfRow(tables[p[1]], p[2], 3, 1).content)
Copies(ts, t) == Cardinality({i \in DOMAIN ts : ts[i] = t})

RECURSIVE SumAbs(_)
SumAbs(ts) ==
    IF ts = <<>> THEN 0
    ELSE (IF Head(ts).Amount < 0 THEN -Head(ts).Amount ELSE Head(ts).Amount)
         + SumAbs(Tail(ts))
RECURSIVE NetFlow(_, _)
NetFlow(ts, n) ==
    IF n = 0 THEN 0
    ELSE NetFlow(ts, n - 1)
         + (IF ts[n].Direction = "Credit" THEN ts[n].Amount ELSE 0)
         - (IF ts[n].Direction = "Credit" THEN 0 ELSE ts[n].Amount)

---------------------------------------------------------------------------
(* Properties *)

\* C1: for every recorded document, total_transactions is the sum over the
\* returned records of Amount for a Credit and -Amount otherwise,
\* expected_ending = starting_balance + total_transactions,
\* variance = ending_balance - expected_ending, the variance is recorded, and
\* the document is listed as a discrepancy exactly when |variance| > 0.01.
C1_VarianceLaw ==
    Recorded =>
        /\ total_transactions = NetFlow(data.transactions, Len(data.transactions))
        /\ expected_ending = data.starting_balance + total_transactions
        /\ variance = data.ending_balance - expected_ending
        /\ variances[Len(variances)] = [file |-> recorded_name, variance |-> variance]
        /\ (\E i \in DOMAIN discrepancies :
                /\ discrepancies[i].file = recorded_name
                /\ discrepancies[i].variance = variance)
           <=> (variance > Tolerance \/ variance < -Tolerance)

\* a document whose variance is exactly 0.01 has been recorded, as no discrepancy
C1_Witness ==
    /\ Recorded
    /\ variance = Tolerance
    /\ data.ending_balance # 0
    /\ discrepancies = <<>>

\* C2: the scenario ("Previous Balance", "$1,000.00"), ("New Balance",
\* "1,200.00"), one row "01/02", "Deposit", "200.00" at row_index 1 yields
\* starting 1000.0, ending 1200.0, exactly one record (Credit, 200.0),
\* total_transactions 200.0, expected_ending 1200.0, variance 0.0, no discrepancy.
C2_Scenario ==
    (Recorded /\ folder[idx - 1].analyses /\ folder[idx - 1].result = ScenarioDoc) =>
        /\ data.starting_balance = 1000 * Scale
        /\ data.ending_balance = 1200 * Scale
        /\ Len(data.transactions) = 1
        /\ data.transactions[1].Direction = "Credit"
        /\ data.transactions[1].Amount = 200 * Scale
        /\ total_transactions = 200 * Scale
        /\ expected_ending = 1200 * Scale
        /\ variance = 0
        /\ discrepancies = <<>>

\* C3: when some key-value key matches the starting pattern, the starting
\* balance is the parsed value of the last such pair from the key-value pass
\* on, through every later pass and in the returned result, whatever the
\* tables hold and also when that value is 0.0.
C3_KeyValuePrecedence ==
    (/\ pc \in {"adjacency", "first_row", "last_row", "defaults", "extract", "reconcile"}
     /\ file.analyses
     /\ StartKeys(result.key_value_pairs) # {}) =>
        LET kv == result.key_value_pairs[Last(StartKeys(result.key_value_pairs))]
        IN  /\ starting_balance = Some(Money(ValueText(kv)))
            /\ pc = "reconcile" => data.starting_balance = Money(ValueText(kv))

\* two matching pairs, the last one parsing to 0.0, and tables offering both a
\* labelled neighbour and a row-0 amount: 0.0 is returned
C3_Witness ==
    /\ Returned
    /\ Cardinality(StartKeys(result.key_value_pairs)) >= 2
    /\ Money(ValueText(result.key_value_pairs[1])) # 0
    /\ StartLabels(result.tables) # {}
    /\ FirstRowAmounts(result.tables) # {}
    /\ data.starting_balance = 0

\* C4 as stated: with no key-value key matching the starting pattern, every
\* non-zero neighbour (same row, column +-1) of a cell labelled "Opening
\* Balance" is the starting balance returned.
C4_AnyAdjacent ==
    (Returned /\ StartKeys(result.key_value_pairs) = {}) =>
        \A ti \in DOMAIN result.tables :
            \A ci \in DOMAIN result.tables[ti] :
                result.tables[ti][ci].content = OpeningBalanceLabel =>
                    \A ai \in NonZeroBeside(result.tables[ti], ci) :
                        data.starting_balance = Money(result.tables[ti][ai].content)

\* C4 amended: with no key-value key matching the starting pattern and some
\* cell matching it that has a non-zero neighbour (same row, column +-1), the
\* starting balance returned is the value of the first such neighbour, in cell
\* order, of the first such label cell, in table and cell order.
C4_FirstAdjacent ==
    (Returned /\ StartKeys(result.key_value_pairs) = {} /\ StartLabels(result.tables) # {}) =>
        LET p == FirstPos(StartLabels(result.tables))
            a == First(NonZeroBeside(result.tables[p[1]], p[2]))
        IN  data.starting_balance = Money(result.tables[p[1]][a].content)

\* an "Opening Balance" cell with two neighbours of different non-zero values,
\* after a table whose label has no amount beside it
C4_Witness ==
    /\ Returned
    /\ StartKeys(result.key_value_pairs) = {}
    /\ StartLabels(result.tables) # {}
    /\ FirstPos(StartLabels(result.tables))[1] > 1
    /\ LET p == FirstPos(StartLabels(result.tables))
       IN  /\ result.tables[p[1]][p[2]].content = OpeningBalanceLabel
           /\ \E a, b \in NonZeroBeside(result.tables[p[1]], p[2]) :
                 /\ a < b
                 /\ Money(result.tables[p[1]][a].content)
                       # Money(result.tables[p[1]][b].content)
                 /\ data.starting_balance = Money(result.tables[p[1]][a].content)

\* C5: for each balance field, if no key-value key matches its pattern, no
\* matching label cell has a neighbour parsing to non-zero and no cell of the
\* scanned row (row 0 for starting, the last row of each table for ending)
\* parses to non-zero, the field is returned as 0.0 with its warning and no
\* exception; the other field, if found, is neither defaulted nor warned about.
C5_Defaults ==
    Returned =>
        /\ StartUnfound(result) =>
              /\ data.starting_balance = 0
              /\ Warned(file_name, "starting")
              /\ ~EndUnfound(result) => ~Warned(file_name, "ending")
        /\ EndUnfound(result) =>
              /\ data.ending_balance = 0
              /\ Warned(file_name, "ending")
              /\ ~StartUnfound(result) => ~Warned(file_name, "starting")
        /\ \A i \in DOMAIN errors : errors[i] # file_name

\* tables with cells, the ending balance unresolved and defaulted, the starting
\* balance found
C5_Witness ==
    /\ Returned
    /\ \E ti \in DOMAIN result.tables : result.tables[ti] # <<>>
    /\ EndUnfound(result)
    /\ ~StartUnfound(result)
    /\ data.ending_balance = 0
    /\ data.starting_balance # 0
    /\ Warned(file_name, "ending")

\* C6: safe_float never raises; it returns 0.0 when the text left after
\* removing commas and dollar signs is not a number (None included), the
\* parsed number otherwise.
C6_NeverRaises ==
    out # NoOutcome =>
        /\ out.exc = ""
        /\ inp = PyNone => out.val = 0
        /\ inp # PyNone =>
              out.val = (IF ParseFloat(Remove(Remove(inp, "$"), ",")).ok
                         THEN ParseFloat(Remove(Remove(inp, "$"), ",")).val
                         ELSE 0)

\* C7: no failure on one PDF aborts the batch: the run ends with the outputs
\* saved, every PDF of the folder has exactly one row and one variance entry,
\* and a PDF that could not be analysed is recorded with 0.0, 0.0 and no
\* transactions.
C7_BatchCompletes ==
    /\ pc # "aborted"
    /\ pc = "done" =>
          /\ written
          /\ \A i \in DOMAIN folder :
                EndsWith(folder[i].name, ExtPdf) =>
                    /\ Cardinality({k \in DOMAIN all_data :
                                       all_data[k].File = folder[i].name}) = 1
                    /\ Cardinality({k \in DOMAIN variances :
                                       variances[k].file = folder[i].name}) = 1
                    /\ ~(folder[i].opens /\ folder[i].analyses) =>
                          \E k \in DOMAIN all_data :
                              /\ all_data[k].File = folder[i].name
                              /\ all_data[k].StartingBalance = 0
                              /\ all_data[k].EndingBalance = 0
                              /\ all_data[k].Transactions = 0

\* C8: a row with index 0 or with fewer than 3 cells yields no record; a row
\* with index > 0 and N >= 3 cells yields N identical records taken from its
\* first three cells in cell order; the list holds nothing else, so its length
\* is the sum of N over those rows.
C8_RecordsPerRow ==
    Returned =>
        /\ Len(data.transactions) = CellCount(DataRows(result.tables), result.tables)
        /\ \A i \in DOMAIN data.transactions :
              LET t == data.transactions[i]
                  rows == {p \in DataRows(result.tables) : FromRow(t, result.tables, p)}
              IN  /\ rows # {}
                  /\ Copies(data.transactions, t) = CellCount(rows, result.tables)

\* a header row, a row of two cells and a row of three cells or more: the
\* records are the copies of that last row
C8_Witness ==
    /\ Returned
    /\ DataRows(result.tables) # {}
    /\ \E ti \in DOMAIN result.tables : \E ci \in DOMAIN result.tables[ti] :
          /\ result.tables[ti][ci].row_index > 0
          /\ Cardinality(CellsOfRow(result.tables[ti], result.tables[ti][ci].row_index)) < 3
    /\ \E ti \in DOMAIN result.tables :
          Cardinality(CellsOfRow(result.tables[ti], 0)) >= 3
    /\ Len(data.transactions) = 3

\* C9: when the key-value and adjacency passes leave the starting balance
\* unresolved, the fallback returns the first non-zero row-0 parse in table
\* order and cell order; later tables never replace it.
C9_FirstTableWins ==
    (/\ Returned
     /\ StartKeys(result.key_value_pairs) = {}
     /\ StartLabels(result.tables) = {}
     /\ FirstRowAmounts(result.tables) # {}) =>
        LET p == FirstPos(FirstRowAmounts(result.tables))
        IN  data.starting_balance = Money(result.tables[p[1]][p[2]].content)

\* C10: total_transactions is the sum of the absolute values of the record
\* amounts, so it is never negative, expected_ending is never below
\* starting_balance, and a negative amount raises expected_ending.
C10_AbsoluteSum ==
    Recorded =>
        /\ total_transactions = SumAbs(data.transactions)
        /\ total_transactions >= 0
        /\ expected_ending >= data.starting_balance
        /\ (\E i \in DOMAIN data.transactions : data.transactions[i].Amount < 0)
              => expected_ending > data.starting_balance

\* records with negative amounts only, all Debit, have raised expected_ending
C10_Witness ==
    /\ Recorded
    /\ data.transactions # <<>>
    /\ \A i \in DOMAIN data.transactions :
          /\ data.transactions[i].Amount < 0
          /\ data.transactions[i].Direction = "Debit"
    /\ expected_ending > data.starting_balance
    /\ total_transactions = SumAbs(data.transactions)

====
